---- MODULE Spec2Model ----
(***************************************************************************)
(* simple-indexedDB: the promise adapter IndexedDBObjectStore              *)
(* (simple-indexeddb.ts) and the schema migrator createIndexeddatabase     *)
(* (create-indexeddatabase.ts), run against one IndexedDB database.        *)
(*                                                                         *)
(* The engine is modelled by what the code observes of it: one queue of    *)
(* open requests per database, the versionchange / upgradeneeded /         *)
(* success / error events of an open request, and the success / error      *)
(* event of every object store request.  A handler of the code runs        *)
(* atomically with the event that triggers it (JavaScript's single thread  *)
(* runs the callback and the awaiting continuation before the next event). *)
(***************************************************************************)
EXTENDS Integers, Sequences, FiniteSets, TLC

\* ------------------------------------------------------------------ bounds
MaxVersion == 3
MaxRequests == 3
MaxCalls == 3
MaxOperations == 2

Migrators == {"m1", "m2"}
Adapters == {"s1", "s2"}
StoreNames == {"a", "b", "c"}

\* ------------------------------------------------------- JavaScript values
Undefined == [type |-> "undefined"]
Str(s) == [type |-> "string", s |-> s]
Num(n) == [type |-> "number", n |-> n]

\* The keys and the values the callers use.  137 and "test" are the README's;
\* the third value is the JSON text of "test".
Keys == {Num(137), Str("test")}
Values == {Num(137), Str("test"), Str("\"test\"")}

\* The engine's order of keys: numbers come before strings.
KeyOrder == <<Num(137), Str("test")>>

NoEntry == [type |-> "none"]
Event == [type |-> "event"]
Array(items) == [type |-> "array", items |-> items]

\* IDBObjectStoreParameters as the callers write them: the set of the flags
\* that are given as true ({} is the empty parameter object).
OptionsIn == {{}, {"autoIncrement"}}

\* What createObjectStore(name, options) records for the new object store:
\* the key path defaults to null, autoIncrement to false.
NoStore == [exists |-> FALSE]
StoreParameters(options) ==
    [exists |-> TRUE, keyPath |-> "null", autoIncrement |-> ("autoIncrement" \in options)]

\* ------------------------------------------------------------------- state
VARIABLES
    dbVersion,      \* the database's version; 0: the database does not exist
    objectStores,   \* name -> NoStore or the parameters it was created with
    entries,        \* name -> key -> stored value
    connection,     \* IDBDatabase handle -> "none" | "open" | "closed"
    openQueue,      \* the engine's queue of open requests on the database
    openStage,      \* how far the engine is with the head of openQueue
    migrator,       \* one createIndexeddatabase call per migrator id
    adapter,        \* one IndexedDBObjectStore construction per adapter id
    requests,       \* the object store requests issued through adapters
    deferred        \* one makePromise() result on its own, with the calls of
                    \* its resolve and reject functions a caller makes

vars == <<dbVersion, objectStores, entries, connection, openQueue, openStage,
          migrator, adapter, requests, deferred>>

\* ------------------------------------------------------ deferred results
\* makePromise(): the promise starts pending; resolve and reject are the
\* functions of a standard Promise, which settle it once and are ignored
\* afterwards.
makePromise == [state |-> "pending"]
\* resolveAgain is a resolve that settles whatever the state.
resolveAgain(promise, value) == [state |-> "fulfilled", value |-> value]
resolve(promise, value) ==
    IF promise.state = "pending" THEN [state |-> "fulfilled", value |-> value] ELSE promise
reject(promise, reason) ==
    IF promise.state = "pending" THEN [state |-> "rejected", reason |-> reason] ELSE promise

\* The calls a holder of the two functions can make, in any sequence.
Reasons == {"ConstraintError", "UnknownError"}
Calls ==
    {[fn |-> "resolve", argument |-> v] : v \in Values}
        \cup {[fn |-> "reject", argument |-> r] : r \in Reasons}
CallSequences == UNION {[1..n -> Calls] : n \in 0..MaxCalls}

\* ------------------------------------------------------------- connections
\* An IDBDatabase handle is named by who opened it and by which open request.
Conn(owner, role) == [owner |-> owner, role |-> role]
NoConn == Conn("none", "none")
Connections ==
    {Conn(m, r) : m \in Migrators, r \in {"probe", "upgrade"}} \cup {Conn(a, "db") : a \in Adapters}

\* The only versionchange handler the code installs: db.onversionchange =
\* db.close on the migrator's probing connection.  The adapter leaves its
\* handler commented out.  NoVersionChangeHandler is the migrator without
\* its handler.
NoVersionChangeHandler(c) == FALSE
ClosesOnVersionChange(c) == c.role = "probe"

ExistingNames == {n \in StoreNames : objectStores[n] # NoStore}

\* --------------------------------------------------------- open requests
OpenRequest(owner, role, version) == [owner |-> owner, role |-> role, version |-> version]
Front == openQueue[1]

\* indexedDB.open(name, version): without a version (0 here) the engine opens
\* the database at its current version, or creates it at version 1.
RequestedVersion(req) ==
    IF req.version # 0 THEN req.version
    ELSE IF dbVersion = 0 THEN 1 ELSE dbVersion

\* The names the request's onupgradeneeded handler passes to createObjectStore.
\* The probing open installs no such handler.  ToCreateInverted is ToCreate
\* with the adapter's test objectStoreNames.contains(objectstorename)
\* inverted.
ToCreateInverted(req) ==
    CASE req.role = "probe" -> {}
      [] req.role = "upgrade" -> migrator[req.owner].to_create
      [] req.role = "db" ->
            IF objectStores[adapter[req.owner].objectstorename] # NoStore
            THEN {[name |-> adapter[req.owner].objectstorename,
                   options |-> adapter[req.owner].createOptions.options]}
            ELSE {}
\* ToCreateOne is the migrator's loop stopping after its first
\* createObjectStore.
ToCreateOne(req) ==
    CASE req.role = "probe" -> {}
      [] req.role = "upgrade" ->
            IF migrator[req.owner].to_create = {} THEN {}
            ELSE {CHOOSE d \in migrator[req.owner].to_create : TRUE}
      [] req.role = "db" ->
            IF objectStores[adapter[req.owner].objectstorename] = NoStore
            THEN {[name |-> adapter[req.owner].objectstorename,
                   options |-> adapter[req.owner].createOptions.options]}
            ELSE {}
ToCreate(req) ==
    CASE req.role = "probe" -> {}
      [] req.role = "upgrade" -> migrator[req.owner].to_create
      [] req.role = "db" ->
            IF objectStores[adapter[req.owner].objectstorename] = NoStore
            THEN {[name |-> adapter[req.owner].objectstorename,
                   options |-> adapter[req.owner].createOptions.options]}
            ELSE {}

\* createObjectStore throws ConstraintError for a name that exists; the
\* exception aborts the upgrade transaction.
HandlerThrows(req) == \E d \in ToCreate(req) : objectStores[d.name] # NoStore

CanSucceed ==
    /\ openQueue # <<>>
    /\ \/ openStage = "upgraded"
       \/ openStage = "queued" /\ RequestedVersion(Front) = dbVersion

\* The error an open request can end with: VersionError when the requested
\* version is lower than the current one, the abort of an upgrade transaction
\* whose handler threw, or an engine failure before the upgrade is done.  A
\* request that waits for other connections to close is sent no event (but
\* blocked, which the code does not handle): its upgrade transaction, and so
\* its abort, starts when they are closed.
OpenFailure ==
    IF RequestedVersion(Front) < dbVersion THEN "VersionError"
    ELSE IF openStage = "waiting" /\ HandlerThrows(Front) THEN "AbortError"
    ELSE "UnknownError"

CanFail ==
    /\ openQueue # <<>>
    /\ \/ openStage = "queued"
       \/ openStage = "waiting" /\ \A c \in Connections : connection[c] # "open"

\* -------------------------------------------------------------------- Init
Init ==
    /\ dbVersion = 0
    /\ objectStores = [n \in StoreNames |-> NoStore]
    /\ entries = [n \in StoreNames |-> [k \in Keys |-> NoEntry]]
    /\ connection = [c \in Connections |-> "none"]
    /\ openQueue = <<>>
    /\ openStage = "queued"
    /\ migrator = [m \in Migrators |->
            [pc |-> "idle", objectStores |-> {}, version |-> 0, to_create |-> {},
             promise |-> makePromise]]
    /\ adapter = [a \in Adapters |->
            [pc |-> "idle", objectstorename |-> "", createOptions |-> [version |-> 0, options |-> {}],
             db |-> NoConn, promise |-> makePromise]]
    /\ requests = <<>>
    /\ deferred = [promise |-> makePromise, calls |-> <<>>, made |-> 0]

\* The adapter's request.onupgradeneeded, apart from createObjectStore (see
\* ToCreate): this.db = event.target.result.  The resolve(this) that follows
\* in the source is commented out; OnUpgradeNeededResolves is the handler
\* with that line live.
OnUpgradeNeededResolves(this, a) ==
    [this EXCEPT !.db = Conn(a, "db"), !.promise = resolve(@, a)]
OnUpgradeNeeded(this, a) == [this EXCEPT !.db = Conn(a, "db")]

\* ------------------------------------------------------- the engine's part
\* An open request for a higher version (or for a database that does not
\* exist): versionchange is fired at every open connection.
VersionChange ==
    /\ openQueue # <<>>
    /\ openStage = "queued"
    /\ RequestedVersion(Front) > dbVersion
    /\ connection' = [c \in Connections |->
            IF connection[c] = "open" /\ ClosesOnVersionChange(c) THEN "closed" ELSE connection[c]]
    /\ openStage' = "waiting"
    /\ UNCHANGED <<deferred, dbVersion, objectStores, entries, openQueue, migrator, adapter, requests>>

\* UpgradeRecreates is the upgrade with a migrator handler that deletes and
\* creates again every object store of the objectStores argument.
UpgradeRecreates ==
    /\ openQueue # <<>>
    /\ openStage = "waiting"
    /\ \A c \in Connections : connection[c] # "open"
    /\ RequestedVersion(Front) <= MaxVersion
    /\ LET created == IF Front.role = "upgrade" THEN migrator[Front.owner].objectStores
                                                ELSE ToCreate(Front)
       IN /\ objectStores' = [n \in StoreNames |->
                    IF \E d \in created : d.name = n
                    THEN StoreParameters((CHOOSE d \in created : d.name = n).options)
                    ELSE objectStores[n]]
          /\ entries' = [n \in StoreNames |->
                    IF \E d \in created : d.name = n THEN [k \in Keys |-> NoEntry]
                    ELSE entries[n]]
    /\ dbVersion' = RequestedVersion(Front)
    /\ connection' = [connection EXCEPT ![Conn(Front.owner, Front.role)] = "open"]
    /\ adapter' = IF Front.role = "db"
                  THEN [adapter EXCEPT ![Front.owner] = OnUpgradeNeeded(@, Front.owner)]
                  ELSE adapter
    /\ openStage' = "upgraded"
    /\ UNCHANGED <<deferred, openQueue, migrator, requests>>

\* Once every other connection is closed the upgrade transaction runs: the
\* version is set, onupgradeneeded is fired and its handler creates the
\* object stores; the transaction commits.
Upgrade ==
    /\ openQueue # <<>>
    /\ openStage = "waiting"
    /\ \A c \in Connections : connection[c] # "open"
    /\ RequestedVersion(Front) <= MaxVersion
    /\ ~HandlerThrows(Front)
    /\ dbVersion' = RequestedVersion(Front)
    /\ objectStores' = [n \in StoreNames |->
            IF \E d \in ToCreate(Front) : d.name = n
            THEN StoreParameters((CHOOSE d \in ToCreate(Front) : d.name = n).options)
            ELSE objectStores[n]]
    /\ connection' = [connection EXCEPT ![Conn(Front.owner, Front.role)] = "open"]
    /\ adapter' = IF Front.role = "db"
                  THEN [adapter EXCEPT ![Front.owner] = OnUpgradeNeeded(@, Front.owner)]
                  ELSE adapter
    /\ openStage' = "upgraded"
    /\ UNCHANGED <<deferred, entries, openQueue, migrator, requests>>

\* --------------------------------------------------- createIndexeddatabase
\* The objectStores argument, a Map or a plain object, as its set of
\* {name, options} pairs: one per name.  The calls that are tried give every
\* name the options of OptionsFor.
OptionsFor(name) == IF name = "b" THEN {"autoIncrement"} ELSE {}
DesiredSets == {{[name |-> n, options |-> OptionsFor(n)] : n \in N} : N \in SUBSET StoreNames}

\* The call: the probing open without a version.
MigratorCall(m, D) ==
    /\ migrator[m].pc = "idle"
    /\ migrator' = [migrator EXCEPT ![m].pc = "probe", ![m].objectStores = D]
    /\ openQueue' = Append(openQueue, OpenRequest(m, "probe", 0))
    /\ UNCHANGED <<deferred, dbVersion, objectStores, entries, connection, openStage, adapter, requests>>

\* The desired object stores the probed database does not contain
\* (!db.objectStoreNames.contains(name)); DiffAll is the loop without that
\* test.
DiffAll(D) == D
Diff(D) == {d \in D : objectStores[d.name] = NoStore}

\* indexedDB.open(dbname, ++version): the version requested is the
\* incremented one; PostIncrement is version++ in its place.
PostIncrement(version) == version
PreIncrement(version) == version + 1

\* The probing open succeeds: the rest of the function runs up to the
\* second open, or to the end when nothing is to be created.
ProbeSuccess(m) ==
    /\ CanSucceed
    /\ Front = OpenRequest(m, "probe", 0)
    /\ LET to_create == Diff(migrator[m].objectStores)
           version == dbVersion
       IN IF to_create # {}
          THEN /\ version + 1 <= MaxVersion
               /\ migrator' = [migrator EXCEPT ![m].pc = "migrate", ![m].version = version + 1,
                                               ![m].to_create = to_create]
               /\ openQueue' = Append(Tail(openQueue),
                                      OpenRequest(m, "upgrade", PreIncrement(version)))
               /\ connection' = [connection EXCEPT ![Conn(m, "probe")] = "open"]
          ELSE /\ migrator' = [migrator EXCEPT ![m].pc = "done", ![m].version = version,
                                               ![m].promise = resolve(@, dbVersion)]
               /\ openQueue' = Tail(openQueue)
               /\ connection' = [connection EXCEPT ![Conn(m, "probe")] = "closed"]
    /\ openStage' = "queued"
    /\ UNCHANGED <<deferred, dbVersion, objectStores, entries, adapter, requests>>

\* request.onerror = reject on the probing open: await throws and the call
\* is rejected.  ProbeErrorUnset is the probing open without its
\* request.onerror = reject line: the call waits for good.
ProbeErrorUnset(m) ==
    /\ CanFail
    /\ Front = OpenRequest(m, "probe", 0)
    /\ migrator' = [migrator EXCEPT ![m].pc = "stuck"]
    /\ openQueue' = Tail(openQueue)
    /\ openStage' = "queued"
    /\ UNCHANGED <<deferred, dbVersion, objectStores, entries, connection, adapter, requests>>
ProbeError(m) ==
    /\ CanFail
    /\ Front = OpenRequest(m, "probe", 0)
    /\ migrator' = [migrator EXCEPT ![m].pc = "done", ![m].promise = reject(@, OpenFailure)]
    /\ openQueue' = Tail(openQueue)
    /\ openStage' = "queued"
    /\ UNCHANGED <<deferred, dbVersion, objectStores, entries, connection, adapter, requests>>

\* request.onsuccess of the second open: resolve(db.version); db.close().
MigrateSuccess(m) ==
    /\ CanSucceed
    /\ Front.owner = m /\ Front.role = "upgrade"
    /\ migrator' = [migrator EXCEPT ![m].pc = "done", ![m].promise = resolve(@, dbVersion)]
    /\ connection' = [connection EXCEPT ![Conn(m, "upgrade")] = "closed"]
    /\ openQueue' = Tail(openQueue)
    /\ openStage' = "queued"
    /\ UNCHANGED <<deferred, dbVersion, objectStores, entries, adapter, requests>>

\* request.onerror = reject on the second open.
MigrateError(m) ==
    /\ CanFail
    /\ Front.owner = m /\ Front.role = "upgrade"
    /\ migrator' = [migrator EXCEPT ![m].pc = "done", ![m].promise = reject(@, OpenFailure)]
    /\ openQueue' = Tail(openQueue)
    /\ openStage' = "queued"
    /\ UNCHANGED <<deferred, dbVersion, objectStores, entries, connection, adapter, requests>>

\* ------------------------------------------------- new IndexedDBObjectStore
\* The constructor: indexedDB.open(dbname, createOptions?.version); version 0
\* stands for no version given.
Construct(a, objectstorename, version, options) ==
    /\ adapter[a].pc = "idle"
    /\ adapter' = [adapter EXCEPT ![a].pc = "opening", ![a].objectstorename = objectstorename,
                                  ![a].createOptions = [version |-> version, options |-> options]]
    /\ openQueue' = Append(openQueue, OpenRequest(a, "db", version))
    /\ UNCHANGED <<deferred, dbVersion, objectStores, entries, connection, openStage, migrator, requests>>

\* request.onsuccess: this.db = event.target.result; resolve(this).
ConstructSuccess(a) ==
    /\ CanSucceed
    /\ Front.owner = a /\ Front.role = "db"
    /\ adapter' = [adapter EXCEPT ![a].pc = "settled", ![a].db = Conn(a, "db"),
                                  ![a].promise = resolve(@, a)]
    /\ connection' = [connection EXCEPT ![Conn(a, "db")] = "open"]
    /\ openQueue' = Tail(openQueue)
    /\ openStage' = "queued"
    /\ UNCHANGED <<deferred, dbVersion, objectStores, entries, migrator, requests>>

\* request.onerror = reject.
ConstructError(a) ==
    /\ CanFail
    /\ Front.owner = a /\ Front.role = "db"
    /\ adapter' = [adapter EXCEPT ![a].pc = "settled", ![a].promise = reject(@, OpenFailure)]
    /\ openQueue' = Tail(openQueue)
    /\ openStage' = "queued"
    /\ UNCHANGED <<deferred, dbVersion, objectStores, entries, connection, migrator, requests>>

\* close(): this.db.close(), by the caller that awaited the construction.
Close(a) ==
    /\ adapter[a].promise.state = "fulfilled"
    /\ connection[adapter[a].db] = "open"
    /\ connection' = [connection EXCEPT ![adapter[a].db] = "closed"]
    /\ UNCHANGED <<deferred, dbVersion, objectStores, entries, openQueue, openStage, migrator, adapter, requests>>

\* ------------------------------------------------- object store requests
\* JavaScript's String(v) conversion, used by template literals and by JSON.parse.
String(v) ==
    CASE v.type = "string" -> v.s
      [] v = Num(137) -> "137"
      [] v = Undefined -> "undefined"

\* JSON.stringify of a string or a number.
JSONstringify(v) ==
    IF v.type = "string" THEN Str("\"" \o v.s \o "\"") ELSE Str(String(v))

\* JSON.parse(x): x is converted to a string and parsed; text that is no JSON
\* throws a SyntaxError.
JSONparse(x) ==
    LET text == String(x)
    IN CASE text = "137" -> [threw |-> FALSE, value |-> Num(137)]
         [] text = "\"test\"" -> [threw |-> FALSE, value |-> Str("test")]
         [] text = "\"137\"" -> [threw |-> FALSE, value |-> Str("137")]
         [] OTHER -> [threw |-> TRUE, value |-> Str("SyntaxError")]

\* The operations and their transactions: db.transaction([name]) is
\* read-only, db.transaction([name], "readwrite") read-write.
Operations ==
    {"get", "getJson", "put", "add", "getAll", "getAllKeys", "getKey", "count", "clear", "delete"}
\* ModeReadWrite is every method asking for a read-write transaction.
ModeReadWrite(op) == "readwrite"
Mode(op) == IF op \in {"put", "add", "clear", "delete"} THEN "readwrite" ELSE "readonly"

\* transaction.onerror = reject: set by every method but get and getJson.
SetsOnError(op) == op \notin {"get", "getJson"}

\* A method call with the caller's arguments: the transaction on the
\* adapter's object store is created (it throws when the connection is closed
\* or the object store is missing), the one request is issued with the
\* arguments the method passes on (data, key, limit; key also stands for the
\* query of getAll, getAllKeys and count) and the promise is returned.
\* version names the file the method is of: "ts" for simple-indexeddb.ts,
\* "js" for simple-indexeddb.js.
Issue(version, a, op, arguments, data, key, limit) ==
    /\ Len(requests) < MaxRequests
    /\ adapter[a].promise.state = "fulfilled"
    /\ connection[adapter[a].db] = "open"
    /\ objectStores[adapter[a].objectstorename] # NoStore
    /\ requests' = Append(requests,
            [adapter |-> a, objectstorename |-> adapter[a].objectstorename, op |-> op,
             version |-> version, arguments |-> arguments, mode |-> Mode(op),
             data |-> data, key |-> key, limit |-> limit,
             outcome |-> "pending", promise |-> makePromise])
    /\ UNCHANGED <<deferred, dbVersion, objectStores, entries, connection, openQueue, openStage,
                   migrator, adapter>>

\* The methods of simple-indexeddb.ts.
Call(a, op, arguments, data, key, limit) == Issue("ts", a, op, arguments, data, key, limit)

get(a, key) == Call(a, "get", <<key>>, Undefined, key, Undefined)
getJson(a, key) == Call(a, "getJson", <<key>>, Undefined, key, Undefined)
\* put(data, key) passes its arguments on in the same order; putSwapped
\* is the method with objectStore.put(key, data).
putSwapped(a, data, key) == Call(a, "put", <<data, key>>, key, data, Undefined)
put(a, data, key) == Call(a, "put", <<data, key>>, data, key, Undefined)
add(a, data, key) == Call(a, "add", <<data, key>>, data, key, Undefined)
getAll(a, query, limit) == Call(a, "getAll", <<query, limit>>, Undefined, query, limit)
getAllKeys(a, query, limit) == Call(a, "getAllKeys", <<query, limit>>, Undefined, query, limit)
getKey(a, key) == Call(a, "getKey", <<key>>, Undefined, key, Undefined)
count(a, query) == Call(a, "count", <<query>>, Undefined, query, Undefined)
clear(a) == Call(a, "clear", <<>>, Undefined, Undefined, Undefined)
delete(a, key) == Call(a, "delete", <<key>>, Undefined, key, Undefined)

\* The methods of simple-indexeddb.js, the JavaScript version of the
\* adapter.  Its getAllKeys calls objectStore.getAllKeys() without the
\* arguments, and it has no close method.
CallJs(a, op, arguments, data, key, limit) == Issue("js", a, op, arguments, data, key, limit)

getJsonJs(a, key) == CallJs(a, "getJson", <<key>>, Undefined, key, Undefined)
getJs(a, key) == CallJs(a, "get", <<key>>, Undefined, key, Undefined)
putJs(a, data, key) == CallJs(a, "put", <<data, key>>, data, key, Undefined)
addJs(a, data, key) == CallJs(a, "add", <<data, key>>, data, key, Undefined)
getAllJs(a, query, limit) == CallJs(a, "getAll", <<query, limit>>, Undefined, query, limit)
clearJs(a) == CallJs(a, "clear", <<>>, Undefined, Undefined, Undefined)
countJs(a, query) == CallJs(a, "count", <<query>>, Undefined, query, Undefined)
getKeyJs(a, key) == CallJs(a, "getKey", <<key>>, Undefined, key, Undefined)
getAllKeysJs(a, query, limit) ==
    CallJs(a, "getAllKeys", <<query, limit>>, Undefined, Undefined, Undefined)
deleteJs(a, key) == CallJs(a, "delete", <<key>>, Undefined, key, Undefined)

\* The methods an adapter object of each version has.
Exposes(version) == IF version = "ts" THEN Operations \cup {"close"} ELSE Operations

\* ---- the engine's object store, for a store with out-of-line keys
Matches(k, query) == query = Undefined \/ k = query
MatchingKeys(e, query, limit) ==
    LET all == SelectSeq(KeyOrder, LAMBDA k : e[k] # NoEntry /\ Matches(k, query))
    IN IF limit = Undefined \/ limit.n >= Len(all) THEN all ELSE SubSeq(all, 1, limit.n)

\* add on a key that is taken ends with a ConstraintError.
MustFail(r, e) == r.op = "add" /\ e[r.key] # NoEntry

\* event.target.result of the request r on the entries e.
Result(r, e) ==
    CASE r.op \in {"get", "getJson"} -> IF e[r.key] = NoEntry THEN Undefined ELSE e[r.key]
      [] r.op \in {"put", "add"} -> r.key
      [] r.op = "getKey" -> IF e[r.key] = NoEntry THEN Undefined ELSE r.key
      [] r.op = "count" -> Num(Len(MatchingKeys(e, r.key, Undefined)))
      [] r.op = "getAllKeys" -> Array(MatchingKeys(e, r.key, r.limit))
      [] r.op = "getAll" ->
            LET ks == MatchingKeys(e, r.key, r.limit)
            IN Array([i \in DOMAIN ks |-> e[ks[i]]])
      [] OTHER -> Undefined

\* The entries after the request r has succeeded on the entries e.
Effect(r, e) ==
    CASE r.op \in {"put", "add"} -> [e EXCEPT ![r.key] = r.data]
      [] r.op = "delete" -> [e EXCEPT ![r.key] = NoEntry]
      [] r.op = "clear" -> [k \in Keys |-> NoEntry]
      [] OTHER -> e

\* ---- the handlers
\* getJson's onsuccess: reject when the result is undefined, then (no
\* return) resolve(JSON.parse(store)), whose exception is caught and
\* rejects again.  OnSuccessGetJsonUnchecked is the handler without the
\* test for undefined.
OnSuccessGetJsonUnchecked(promise, key, store) ==
    LET parsed == JSONparse(store)
    IN IF parsed.threw
       THEN reject(promise, "Could not parse " \o String(key) \o " in object store: "
                                \o parsed.value.s)
       ELSE resolve(promise, parsed.value)
OnSuccessGetJson(promise, key, store) ==
    LET checked == IF store = Undefined
                   THEN reject(promise, String(key) \o " is undefined")
                   ELSE promise
        parsed == JSONparse(store)
    IN IF parsed.threw
       THEN reject(checked, "Could not parse " \o String(key) \o " in object store: "
                                \o parsed.value.s)
       ELSE resolve(checked, parsed.value)

\* The onsuccess of each method: clear and delete resolve with the event,
\* the others with event.target.result.
OnSuccess(r, result) ==
    CASE r.op = "getJson" -> OnSuccessGetJson(r.promise, r.key, result)
      [] r.op \in {"clear", "delete"} -> resolve(r.promise, Event)
      [] OTHER -> resolve(r.promise, result)

\* The onsuccess of each method of simple-indexeddb.js: delete resolves
\* with the event, the others, clear among them, with event.target.result.
OnSuccessJs(r, result) ==
    CASE r.op = "getJson" -> OnSuccessGetJson(r.promise, r.key, result)
      [] r.op = "delete" -> resolve(r.promise, Event)
      [] OTHER -> resolve(r.promise, result)

\* The onerror of each method: reject, called with the error event, where
\* the method sets it.  OnErrorUnset is a method without its
\* transaction.onerror = reject line.
OnErrorUnset(r, error) == r.promise
OnError(r, error) ==
    IF SetsOnError(r.op) THEN reject(r.promise, error) ELSE r.promise

\* Transactions whose scopes overlap run in the order of their creation
\* when one of them is read-write.
CanRun(i) ==
    /\ requests[i].outcome = "pending"
    /\ \A j \in 1..(i - 1) :
        (/\ requests[j].outcome = "pending"
         /\ requests[j].objectstorename = requests[i].objectstorename) =>
            requests[j].mode = "readonly" /\ requests[i].mode = "readonly"

\* The engine fires success on request i.
RequestSuccess(i) ==
    LET r == requests[i]
        e == entries[r.objectstorename]
    IN /\ CanRun(i)
       /\ ~MustFail(r, e)
       /\ entries' = [entries EXCEPT ![r.objectstorename] = Effect(r, e)]
       /\ requests' = [requests EXCEPT ![i].outcome = "success",
                                       ![i].promise = IF r.version = "js"
                                                      THEN OnSuccessJs(r, Result(r, e))
                                                      ELSE OnSuccess(r, Result(r, e))]
       /\ UNCHANGED <<deferred, dbVersion, objectStores, connection, openQueue, openStage, migrator, adapter>>

\* The engine fires error on request i: its transaction is aborted.
\* RequestErrorShared is the handler of an adapter that keeps one deferred
\* result for all its operations: the error rejects every pending one.
RequestErrorShared(i) ==
    LET r == requests[i]
        e == entries[r.objectstorename]
        error == IF MustFail(r, e) THEN "ConstraintError" ELSE "UnknownError"
    IN /\ CanRun(i)
       /\ requests' = [j \in DOMAIN requests |->
            IF j = i THEN [requests[j] EXCEPT !.outcome = "error", !.promise = OnError(r, error)]
            ELSE [requests[j] EXCEPT !.promise = reject(@, error)]]
       /\ UNCHANGED <<deferred, dbVersion, objectStores, entries, connection, openQueue, openStage,
                      migrator, adapter>>
RequestError(i) ==
    LET r == requests[i]
        e == entries[r.objectstorename]
    IN /\ CanRun(i)
       /\ requests' = [requests EXCEPT ![i].outcome = "error",
                            ![i].promise = OnError(r, IF MustFail(r, e) THEN "ConstraintError"
                                                                        ELSE "UnknownError")]
       /\ UNCHANGED <<deferred, dbVersion, objectStores, entries, connection, openQueue, openStage,
                      migrator, adapter>>

\* ---------------------------------------------------------- specifications
EngineOpen == VersionChange \/ Upgrade

MigratorStep ==
    \E m \in Migrators : ProbeSuccess(m) \/ ProbeError(m) \/ MigrateSuccess(m) \/ MigrateError(m)

AdapterStep ==
    \E a \in {"s1"} : ConstructSuccess(a) \/ ConstructError(a) \/ Close(a)

StartMigrator == \E m \in Migrators, D \in DesiredSets : MigratorCall(m, D)

StartAdapter ==
    \E a \in {"s1"}, n \in StoreNames, v \in 0..MaxVersion, o \in OptionsIn : Construct(a, n, v, o)

\* Any interleaving of migrator calls and adapter constructions.
Next == StartMigrator \/ StartAdapter \/ EngineOpen \/ MigratorStep \/ AdapterStep

Spec == Init /\ [][Next]_vars

\* Calls in succession: a call (a migrator call or a construction) starts
\* only when no open request is in flight, that is when every earlier call
\* has settled.
NextSeq ==
    \/ openQueue = <<>> /\ StartMigrator
    \/ openQueue = <<>> /\ StartAdapter
    \/ EngineOpen \/ MigratorStep \/ AdapterStep

SpecSeq == Init /\ [][NextSeq]_vars

\* One adapter on the object store "a" of a new database, as in the README's
\* usage example, and the requests issued through it.
StartStore == Construct("s1", "a", 0, {})

Operation ==
    \E a \in {"s1"} :
        \/ \E k \in Keys : get(a, k) \/ getJson(a, k) \/ getKey(a, k) \/ delete(a, k)
        \/ \E v \in Values, k \in Keys : put(a, v, k) \/ add(a, v, k)
        \/ \E q \in Keys \cup {Undefined}, n \in {Undefined, Num(1)} :
                getAll(a, q, n) \/ getAllKeys(a, q, n) \/ getAllKeysJs(a, q, n)
        \/ \E q \in Keys \cup {Undefined} : count(a, q)
        \/ clear(a)

EngineRequest == \E i \in DOMAIN requests : RequestSuccess(i) \/ RequestError(i)

NextStore == StartStore \/ EngineOpen \/ AdapterStep \/ Operation \/ EngineRequest

SpecStore == Init /\ [][NextStore]_vars

\* One migrator call and one adapter, in any interleaving, with an engine
\* that serves the open request at the head of its queue: it fires
\* versionchange, runs the upgrade once no connection is open, and ends the
\* request with success or error.  The caller of the adapter is free never
\* to close it.
StartOne == \E D \in DesiredSets : MigratorCall("m1", D)

NextLive == StartOne \/ StartAdapter \/ EngineOpen \/ MigratorStep \/ AdapterStep

SpecLive ==
    Init /\ [][NextLive]_vars /\ WF_vars(EngineOpen) /\ WF_vars(MigratorStep)

\* One adapter on the object store "a" that writes up to MaxOperations
\* entries and may be closed, and one migrator call, in any interleaving.
Writes == \E a \in {"s1"}, v \in Values, k \in Keys : put(a, v, k)

NextData ==
    \/ StartStore \/ StartOne \/ EngineOpen \/ MigratorStep \/ AdapterStep \/ EngineRequest
    \/ Len(requests) < MaxOperations /\ Writes

SpecData == Init /\ [][NextData]_vars

\* One adapter on the object store "a" and up to MaxOperations requests,
\* each issued by a method of either version of the adapter.
OperationJs ==
    \E a \in {"s1"} :
        \/ \E k \in Keys : getJs(a, k) \/ getJsonJs(a, k) \/ getKeyJs(a, k) \/ deleteJs(a, k)
        \/ \E v \in Values, k \in Keys : putJs(a, v, k) \/ addJs(a, v, k)
        \/ \E q \in Keys \cup {Undefined}, n \in {Undefined, Num(1)} :
                getAllJs(a, q, n) \/ getAllKeysJs(a, q, n)
        \/ \E q \in Keys \cup {Undefined} : countJs(a, q)
        \/ clearJs(a)

NextVersions ==
    \/ StartStore \/ EngineOpen \/ AdapterStep \/ EngineRequest
    \/ Len(requests) < MaxOperations /\ Operation
    \/ Len(requests) < MaxOperations /\ OperationJs

SpecVersions == Init /\ [][NextVersions]_vars

\* Two migrator calls on the database, in any interleaving, and nothing else.
NextMigrators == StartMigrator \/ EngineOpen \/ MigratorStep

SpecMigrators == Init /\ [][NextMigrators]_vars

\* A deferred result on its own: any sequence of calls of its resolve and
\* reject functions, made one after the other; beside it, the adapter of
\* SpecStore with up to MaxOperations requests.
InitPromise ==
    /\ dbVersion = 0
    /\ objectStores = [n \in StoreNames |-> NoStore]
    /\ entries = [n \in StoreNames |-> [k \in Keys |-> NoEntry]]
    /\ connection = [c \in Connections |-> "none"]
    /\ openQueue = <<>>
    /\ openStage = "queued"
    /\ migrator = [m \in Migrators |->
            [pc |-> "idle", objectStores |-> {}, version |-> 0, to_create |-> {},
             promise |-> makePromise]]
    /\ adapter = [a \in Adapters |->
            [pc |-> "idle", objectstorename |-> "", createOptions |-> [version |-> 0, options |-> {}],
             db |-> NoConn, promise |-> makePromise]]
    /\ requests = <<>>
    /\ \E calls \in CallSequences :
            deferred = [promise |-> makePromise, calls |-> calls, made |-> 0]

\* The next call of the sequence is made.
Settle ==
    /\ deferred.made < Len(deferred.calls)
    /\ LET call == deferred.calls[deferred.made + 1]
       IN deferred' = [deferred EXCEPT
                !.made = @ + 1,
                !.promise = IF call.fn = "resolve" THEN resolve(@, call.argument)
                                                   ELSE reject(@, call.argument)]
    /\ UNCHANGED <<dbVersion, objectStores, entries, connection, openQueue, openStage,
                   migrator, adapter, requests>>

NextPromise ==
    \/ Settle
    \/ deferred.calls = <<>> /\ (StartStore \/ EngineOpen \/ AdapterStep \/ EngineRequest)
    \/ deferred.calls = <<>> /\ Len(requests) < MaxOperations /\ Operation

SpecPromise == InitPromise /\ [][NextPromise]_vars

\* ---------------------------------------------------------------- claims
DesiredNames(m) == {d.name : d \in migrator[m].objectStores}
OnBehalfOf(owner) == openQueue # <<>> /\ Front.owner = owner
Fulfils(m) == migrator[m].promise.state = "pending" /\ migrator'[m].promise.state = "fulfilled"
Fulfilled(m) == migrator[m].pc = "done" /\ migrator[m].promise.state = "fulfilled"

\* What C1 says of a call whose desired set holds an object store that does
\* not exist, with the version before the call taken as given (PreCall =
\* TRUE) or only for a database that exists (PreCall = dbVersion >= 1):
\*  - the probing open leaves the version as it was before the call, so the
\*    version the call reads is the version before the call;
\*  - the call does not end with the probing open unless that fails, and the
\*    second open asks for the version read plus one;
\*  - when the call fulfils, every desired object store exists and the value
\*    is the version asked for, which is the database's version.
MigrationContract(m, PreCall) ==
    /\ (Front.role = "probe" /\ ~(DesiredNames(m) \subseteq ExistingNames)) =>
            /\ PreCall => dbVersion' = dbVersion
            /\ ~PreCall => dbVersion' \in {0, 1}
            /\ migrator'[m].pc = "done" => migrator'[m].promise.state = "rejected"
            /\ migrator'[m].pc = "migrate" =>
                    openQueue'[Len(openQueue')] = OpenRequest(m, "upgrade", dbVersion + 1)
    /\ (Front.role = "upgrade" /\ Fulfils(m)) =>
            /\ DesiredNames(m) \subseteq ExistingNames'
            /\ migrator'[m].promise.value = Front.version
            /\ migrator'[m].promise.value = dbVersion'

NoMigration(m, Existed) ==
    /\ Existed => dbVersion' = dbVersion
    /\ \A i \in DOMAIN openQueue' :
            (openQueue'[i].owner = m /\ openQueue'[i].role = "upgrade") =>
                \E j \in DOMAIN openQueue : openQueue[j] = openQueue'[i]
    /\ (Front.role = "probe" /\ migrator'[m].pc # "probe") => migrator'[m].pc = "done"
    /\ Fulfils(m) => migrator'[m].promise.value = dbVersion /\ dbVersion' = dbVersion

\* C2 (as claimed): the migrator never decreases the version, and when every
\* desired object store exists (zero desired ones included) it opens no
\* upgrade transaction, leaves the version unchanged and returns it.
C2_Original ==
    [][/\ dbVersion' >= dbVersion
       /\ \A m \in Migrators :
            (OnBehalfOf(m) /\ DesiredNames(m) \subseteq ExistingNames) => NoMigration(m, TRUE)]_vars

\* C2 (amended): the same, except that the probing open of a database that
\* does not exist creates it at version 1 (an upgrade transaction of the
\* engine, with no handler of the migrator), and that version is returned.
C2_NoMigration ==
    [][/\ dbVersion' >= dbVersion
       /\ \A m \in Migrators :
            (OnBehalfOf(m) /\ DesiredNames(m) \subseteq ExistingNames) =>
                /\ NoMigration(m, dbVersion >= 1)
                /\ dbVersion = 0 => dbVersion' \in {0, 1}]_vars

C2_Witness ==
    \E m \in Migrators :
        /\ Fulfilled(m)
        /\ migrator[m].objectStores # {}
        /\ migrator[m].to_create = {}
        /\ migrator[m].promise.value = dbVersion
        /\ dbVersion = 2

\* C3: of two calls in succession with the same desired set, the second
\* returns the version the first returned, changes neither the version nor
\* the object stores, and opens no second request.  (The first call, m, has
\* fulfilled with this desired set and the version is still the one it
\* returned; the second, n, is the one being served.)
C3_Idempotent ==
    [][\A n \in Migrators : \A m \in Migrators \ {n} :
        (/\ OnBehalfOf(n)
         /\ Fulfilled(m)
         /\ migrator[m].objectStores = migrator[n].objectStores
         /\ migrator[m].promise.value = dbVersion) =>
            /\ dbVersion' = dbVersion
            /\ objectStores' = objectStores
            /\ migrator'[n].pc # "migrate"
            /\ Fulfils(n) => migrator'[n].promise.value = migrator[m].promise.value]_vars

C3_Witness ==
    /\ \A m \in Migrators : Fulfilled(m) /\ DesiredNames(m) = {"a", "b"}
    /\ migrator["m1"].promise.value = migrator["m2"].promise.value
    /\ \E m \in Migrators : migrator[m].to_create # {}
    /\ \E m \in Migrators : migrator[m].to_create = {}

\* The scenario of C4, the two calls being the only ones made on the
\* database: after the first call (desired a and b) the version is First and
\* a, b exist; after the second (desired a and c) the version is Second and
\* exactly a, b, c exist.
Scenario(First, Second) ==
    (/\ \A a \in Adapters : adapter[a].pc = "idle"
     /\ Fulfilled("m1")
     /\ DesiredNames("m1") = {"a", "b"}) =>
        /\ migrator["m2"].pc = "idle" =>
                migrator["m1"].promise.value = First /\ ExistingNames = {"a", "b"}
        /\ (/\ Fulfilled("m2")
            /\ DesiredNames("m2") = {"a", "c"}
            /\ migrator["m1"].promise.value < migrator["m2"].promise.value) =>
                /\ migrator["m1"].promise.value = First
                /\ migrator["m2"].promise.value = Second
                /\ ExistingNames = {"a", "b", "c"}

\* C4 (as claimed): on a database that does not exist the first call returns
\* version 1 and the second version 2.
C4_Original == Scenario(1, 2)

\* C4 (amended): the first call returns version 2 (the probing open creates
\* the database at version 1) and the second version 3.
C4_Scenario == Scenario(2, 3)

C4_Witness ==
    /\ \A a \in Adapters : adapter[a].pc = "idle"
    /\ Fulfilled("m1") /\ DesiredNames("m1") = {"a", "b"}
    /\ Fulfilled("m2") /\ DesiredNames("m2") = {"a", "c"}
    /\ migrator["m1"].promise.value = 2
    /\ migrator["m2"].promise.value = 3
    /\ ExistingNames = {"a", "b", "c"}

\* C9: a construction is fulfilled only by the success event of its open
\* request, with the adapter itself and with the connection captured and
\* open; the upgrade phase leaves it pending; when its open request ends
\* otherwise it is rejected with the error of the engine; and a settled
\* construction is settled for good.
C9_Construction ==
    [][\A a \in Adapters :
        LET old == adapter[a].promise
            new == adapter'[a].promise
        IN /\ (old.state = "pending" /\ new.state = "fulfilled") =>
                /\ OnBehalfOf(a) /\ CanSucceed
                /\ new.value = a
                /\ adapter'[a].db = Conn(a, "db")
                /\ connection'[Conn(a, "db")] = "open"
           /\ openStage' = "upgraded" => new = old
           /\ (old.state = "pending" /\ new.state = "rejected") =>
                OnBehalfOf(a) /\ CanFail /\ new.reason = OpenFailure
           /\ (OnBehalfOf(a) /\ (openQueue' = <<>> \/ openQueue'[1] # Front)) =>
                /\ new.state # "pending"
                /\ ~CanSucceed => new.state = "rejected"
           /\ old.state # "pending" => new = old]_vars

C9_Witness ==
    \E a \in Adapters :
        /\ OnBehalfOf(a)
        /\ openStage = "upgraded"
        /\ objectStores[adapter[a].objectstorename] # NoStore
        /\ adapter[a].db = Conn(a, "db")
        /\ adapter[a].promise.state = "pending"

Settled(r, state) == r.promise.state = state

\* A request that changed, or may still change, what is stored under key.
Overwrites(r, key) ==
    r.mode = "readwrite" /\ r.outcome # "error" /\ (r.op = "clear" \/ r.key = key)

\* get(key) at position j follows the fulfilled put at position i on the
\* same adapter, with nothing written under key in between, and is fulfilled.
GetFollowsPut(i, j, key) ==
    /\ i < j
    /\ requests[i].op = "put" /\ Settled(requests[i], "fulfilled")
    /\ requests[j].op = "get" /\ Settled(requests[j], "fulfilled")
    /\ requests[j].adapter = requests[i].adapter
    /\ requests[j].arguments = <<key>>
    /\ \A n \in (i + 1)..(j - 1) : ~Overwrites(requests[n], key)

\* C5 (as claimed): whenever the engine has fired error on the request of an
\* operation, the promise the operation returned is rejected.
C5_ErrorRejects ==
    \A i \in DOMAIN requests :
        requests[i].outcome = "error" => Settled(requests[i], "rejected")

\* C6: put(v, k) that fulfils, followed by get(k), yields v.
C6_RoundTrip ==
    \A i, j \in DOMAIN requests :
        GetFollowsPut(i, j, requests[i].arguments[2]) =>
            requests[j].promise.value = requests[i].arguments[1]

C6_Witness ==
    \E i, j \in DOMAIN requests :
        /\ GetFollowsPut(i, j, Num(137))
        /\ requests[i].arguments = <<Str("test"), Num(137)>>
        /\ requests[j].promise.value = Str("test")

\* C7 (as the README has it): after put(x, y) fulfils, get(x) yields y.
C7_Readme ==
    \A i, j \in DOMAIN requests :
        GetFollowsPut(i, j, requests[i].arguments[1]) =>
            requests[j].promise.value = requests[i].arguments[2]

\* The entries of the adapter's object store when request i runs: those the
\* successful requests before it have left (the database is new).
RECURSIVE EntriesBefore(_)
EntriesBefore(i) ==
    IF i = 1 THEN [k \in Keys |-> NoEntry]
    ELSE IF requests[i - 1].outcome = "success"
         THEN Effect(requests[i - 1], EntriesBefore(i - 1))
         ELSE EntriesBefore(i - 1)

\* C8: once the engine has fired success on its request, getJson(k)
\*  - is rejected with "<k> is undefined" when nothing is stored under k,
\*  - is rejected with a message naming k when the stored text is no JSON
\*    ("test" is none),
\*  - is fulfilled with v when JSON.stringify(v) is stored.
C8_GetJson ==
    \A i \in DOMAIN requests :
        (requests[i].op = "getJson" /\ requests[i].outcome = "success") =>
            LET k == requests[i].arguments[1]
                stored == EntriesBefore(i)[k]
                promise == requests[i].promise
            IN /\ stored = NoEntry =>
                    promise = [state |-> "rejected", reason |-> String(k) \o " is undefined"]
               /\ stored = Str("test") =>
                    promise = [state |-> "rejected",
                               reason |-> "Could not parse " \o String(k)
                                            \o " in object store: SyntaxError"]
               /\ \A v \in {Num(137), Str("test"), Str("137")} :
                    stored = JSONstringify(v) => promise = [state |-> "fulfilled", value |-> v]

C8_Witness ==
    \E h, i, j \in DOMAIN requests :
        /\ requests[h].op = "getJson" /\ requests[h].arguments = <<Str("test")>>
        /\ requests[h].promise = [state |-> "rejected", reason |-> "test is undefined"]
        /\ requests[i].op = "getJson" /\ requests[i].arguments = <<Num(137)>>
        /\ EntriesBefore(i)[Num(137)] = JSONstringify(Str("test"))
        /\ requests[i].promise = [state |-> "fulfilled", value |-> Str("test")]
        /\ requests[j].op = "put" /\ requests[j].arguments = <<Str("\"test\""), Num(137)>>

\* ---- claims about blocked upgrades and the connections of a call
\* A connection of somebody else than owner is open.
OtherOpen(owner) == \E c \in Connections : c.owner # owner /\ connection[c] = "open"
StaysOpen(owner) ==
    \E c \in Connections : c.owner # owner /\ connection[c] = "open" /\ connection'[c] = "open"
UpgradeOf(m) == OnBehalfOf(m) /\ Front.role = "upgrade"
SettledCall(m) == migrator[m].pc = "done" /\ migrator[m].promise.state # "pending"

NeedsUpgrade(m) == UpgradeOf(m) /\ Front.version > dbVersion
C12_Released ==
    \A m \in Migrators :
        SettledCall(m) =>
            /\ connection[Conn(m, "probe")] # "open"
            /\ connection[Conn(m, "upgrade")] # "open"

\* ---- claims about what an upgrade creates
\* The names a step adds to the database.
Added == {n \in StoreNames : objectStores[n] = NoStore /\ objectStores'[n] # NoStore}
Pending(m) == {d.name : d \in migrator[m].to_create}

\* C13: every step of the second open of a migrator call either leaves the
\* version and the object stores as they are, or raises the version to the
\* one asked for and adds every object store of to_create, with its options,
\* and nothing else; the call is then fulfilled, and a call that is rejected
\* has added none.
C13_Atomic ==
    [][\A m \in Migrators :
        UpgradeOf(m) =>
            /\ \/ dbVersion' = dbVersion /\ objectStores' = objectStores
               \/ /\ dbVersion' = Front.version /\ dbVersion' > dbVersion
                  /\ Added = Pending(m)
                  /\ \A d \in migrator[m].to_create :
                        objectStores'[d.name] = StoreParameters(d.options)
                  /\ \A n \in StoreNames \ Pending(m) : objectStores'[n] = objectStores[n]
                  /\ migrator'[m].promise.state = "pending"
            /\ openStage = "upgraded" =>
                    /\ Pending(m) \subseteq ExistingNames
                    /\ openQueue' = Tail(openQueue) =>
                            Fulfils(m) /\ migrator'[m].promise.value = dbVersion
            /\ migrator'[m].promise.state = "rejected" =>
                    openStage # "upgraded" /\ objectStores' = objectStores]_vars

C13_Witness ==
    /\ Fulfilled("m1")
    /\ Pending("m1") = {"a", "b"}
    /\ migrator["m1"].promise.value = dbVersion
    /\ SettledCall("m2") /\ migrator["m2"].promise.state = "rejected"
    /\ Pending("m2") = {"c"}
    /\ ExistingNames = {"a", "b"}

\* ---- claims about the independence of operations
\* C14: in every interleaving of the requests of an adapter, the promise of
\* an operation changes only in the step in which the engine fires success
\* or error on the operation's own request, and then it is settled for
\* good; a request on which error is fired changes nothing that is stored
\* and leaves every other operation as it was; and an operation (getJson
\* apart, which parses) on which success is fired is fulfilled, whatever
\* was rejected before it.
C14_Independent ==
    [][\A i \in DOMAIN requests :
        LET old == requests[i]
            new == requests'[i]
        IN /\ new.promise # old.promise =>
                old.outcome = "pending" /\ new.outcome # "pending" /\ old.promise.state = "pending"
           /\ (old.outcome = "pending" /\ new.outcome = "error") =>
                /\ entries' = entries
                /\ \A j \in DOMAIN requests \ {i} : requests'[j] = requests[j]
           /\ (old.outcome = "pending" /\ new.outcome = "success" /\ old.op # "getJson") =>
                /\ new.promise.state = "fulfilled"
                /\ \A j \in DOMAIN requests \ {i} : requests'[j] = requests[j]]_vars

C14_Witness ==
    /\ Len(requests) = 3
    /\ requests[1].op = "add" /\ requests[1].arguments = <<Num(137), Str("test")>>
    /\ Settled(requests[1], "rejected") /\ requests[1].promise.reason = "UnknownError"
    /\ requests[2].op = "add" /\ requests[2].arguments = <<Num(137), Str("test")>>
    /\ Settled(requests[2], "fulfilled")
    /\ requests[3].op = "get" /\ requests[3].arguments = <<Str("test")>>
    /\ requests[3].promise = [state |-> "fulfilled", value |-> Num(137)]

\* add(v, k) at position j follows the fulfilled add at position i, with
\* nothing written under k in between, and the engine has answered it.
AddFollowsAdd(i, j, key) ==
    /\ i < j
    /\ requests[i].op = "add" /\ Settled(requests[i], "fulfilled")
    /\ requests[i].arguments[2] = key
    /\ requests[j].op = "add" /\ requests[j].outcome # "pending"
    /\ requests[j].arguments[2] = key
    /\ \A n \in (i + 1)..(j - 1) : ~Overwrites(requests[n], key)

\* C15: add(v1, k) that fulfils followed by add(v2, k): the second is
\* rejected (with the engine's ConstraintError), what is stored under k
\* stays v1, and a get(k) that follows yields v1.
C15_AddTwice ==
    \A i, j \in DOMAIN requests :
        AddFollowsAdd(i, j, requests[i].arguments[2]) =>
            LET k == requests[i].arguments[2]
                v1 == requests[i].arguments[1]
            IN /\ requests[j].promise = [state |-> "rejected", reason |-> "ConstraintError"]
               /\ EntriesBefore(j)[k] = v1
               /\ EntriesBefore(j + 1)[k] = v1
               /\ \A l \in DOMAIN requests :
                    (/\ l > j
                     /\ requests[l].op = "get" /\ requests[l].arguments = <<k>>
                     /\ requests[l].outcome = "success"
                     /\ \A n \in (j + 1)..(l - 1) : ~Overwrites(requests[n], k)) =>
                        requests[l].promise = [state |-> "fulfilled", value |-> v1]

C15_Witness ==
    /\ Len(requests) = 3
    /\ AddFollowsAdd(1, 2, Num(137))
    /\ requests[1].arguments = <<Str("test"), Num(137)>>
    /\ requests[2].arguments = <<Num(137), Num(137)>>
    /\ Settled(requests[2], "rejected")
    /\ requests[3].op = "get" /\ requests[3].arguments = <<Num(137)>>
    /\ requests[3].promise = [state |-> "fulfilled", value |-> Str("test")]

\* ---- claims about getAllKeys
Position(k) == CHOOSE p \in DOMAIN KeyOrder : KeyOrder[p] = k

\* C16 (as claimed): once the engine has fired success on its request,
\* getAllKeys(query, count) is fulfilled with an array of keys of the object
\* store that match the query (every key, without a query), in the order of
\* the keys and without repetition; with all of them when count is not
\* given or not exceeded, and otherwise with the first count of them.
C16_GetAllKeys ==
    \A i \in DOMAIN requests :
        (requests[i].op = "getAllKeys" /\ requests[i].outcome = "success") =>
            LET query == requests[i].arguments[1]
                limit == requests[i].arguments[2]
                e == EntriesBefore(i)
                matching == {k \in Keys : e[k] # NoEntry /\ (query = Undefined \/ k = query)}
                promise == requests[i].promise
            IN /\ promise.state = "fulfilled"
               /\ promise.value.type = "array"
               /\ LET items == promise.value.items
                  IN /\ \A x \in DOMAIN items : items[x] \in matching
                     /\ \A x, y \in DOMAIN items :
                            x < y => Position(items[x]) < Position(items[y])
                     /\ Len(items) = IF limit = Undefined \/ limit.n >= Cardinality(matching)
                                     THEN Cardinality(matching)
                                     ELSE limit.n
                     /\ \A k \in matching :
                            (\A x \in DOMAIN items : items[x] # k) =>
                                \A x \in DOMAIN items : Position(items[x]) < Position(k)

\* ---- claims about deferred results
\* What the first call of a sequence makes of a pending promise.
Outcome(call) ==
    IF call.fn = "resolve" THEN [state |-> "fulfilled", value |-> call.argument]
                           ELSE [state |-> "rejected", reason |-> call.argument]

\* C17: whatever the sequence of calls of resolve and reject, the deferred
\* result is pending before the first call and has the outcome of the
\* first call after any number of them; the deferred result of an operation
\* is settled once the engine has fired success on its request; and a
\* settled deferred result of an operation, a construction or a migrator
\* call never changes.
C17_SettledOnce ==
    /\ [](/\ deferred.made = 0 => deferred.promise.state = "pending"
          /\ deferred.made > 0 => deferred.promise = Outcome(deferred.calls[1])
          /\ \A i \in DOMAIN requests :
                requests[i].outcome = "success" => requests[i].promise.state # "pending")
    /\ [][/\ \A i \in DOMAIN requests :
                requests[i].promise.state # "pending" =>
                    requests'[i].promise = requests[i].promise
          /\ \A a \in Adapters :
                adapter[a].promise.state # "pending" => adapter'[a].promise = adapter[a].promise
          /\ deferred.promise.state # "pending" => deferred'.promise = deferred.promise]_vars

C17_Witness ==
    /\ deferred.made = 3
    /\ deferred.calls[1] = [fn |-> "reject", argument |-> "ConstraintError"]
    /\ deferred.calls[2] = [fn |-> "resolve", argument |-> Num(137)]
    /\ deferred.calls[3].fn = "resolve"
    /\ deferred.promise = [state |-> "rejected", reason |-> "ConstraintError"]

\* ---- claims about createObjectStore
\* C18: whenever an open request is about to run its upgrade handler, none
\* of the names the handler passes to createObjectStore exists; every step
\* that changes the object stores is the upgrade of the request at the head
\* of the queue and adds exactly those names; and an object store that
\* exists is never created again or changed.
C18_CreatedOnce ==
    /\ [](openQueue # <<>> /\ openStage = "waiting" =>
            \A d \in ToCreate(Front) : objectStores[d.name] = NoStore)
    /\ [][/\ objectStores' # objectStores =>
                /\ openQueue # <<>> /\ openStage = "waiting" /\ openStage' = "upgraded"
                /\ Added = {d.name : d \in ToCreate(Front)}
          /\ \A n \in StoreNames :
                objectStores[n] # NoStore => objectStores'[n] = objectStores[n]]_vars

C18_Witness ==
    /\ \A m \in Migrators : Fulfilled(m) /\ Pending(m) = {"a"}
    /\ adapter["s1"].promise.state = "fulfilled" /\ adapter["s1"].objectstorename = "a"
    /\ ExistingNames = {"a"}

\* C19 (as claimed): in every interleaving of two migrator calls, a call
\* fulfils only in a state in which every object store of its desired set
\* exists, and with the version the database has in that state.
C19_Fulfils ==
    [][\A m \in Migrators :
        Fulfils(m) =>
            /\ DesiredNames(m) \subseteq ExistingNames'
            /\ migrator'[m].promise.value = dbVersion']_vars

\* ---- claims about the probing open
ProbeOf(m) == OnBehalfOf(m) /\ Front.role = "probe"
Ends == openQueue' = <<>> \/ openQueue'[1] # Front
NoRequestOf(m) == \A i \in DOMAIN openQueue' : openQueue'[i].owner # m

\* C20: when the probing open of a migrator call ends without success, the
\* call is rejected with the error of the engine and is over; a probing
\* open that fails has changed neither the version nor the object stores
\* (it cannot fail once the engine has created the database for it); and a
\* call that is over requests no open.
C20_ProbeFails ==
    [][\A m \in Migrators :
        /\ (ProbeOf(m) /\ Ends /\ ~CanSucceed) =>
                /\ migrator'[m].pc = "done"
                /\ migrator'[m].promise = [state |-> "rejected", reason |-> OpenFailure]
                /\ NoRequestOf(m)
                /\ dbVersion' = dbVersion /\ objectStores' = objectStores
        /\ (ProbeOf(m) /\ migrator'[m].promise.state = "rejected") =>
                openStage # "upgraded" /\ NoRequestOf(m)
        /\ (ProbeOf(m) /\ (dbVersion' # dbVersion \/ objectStores' # objectStores)) =>
                openStage' = "upgraded" /\ ~CanFail'
        /\ migrator[m].pc = "done" => migrator'[m].pc = "done" /\ NoRequestOf(m)]_vars

C20_Witness ==
    /\ SettledCall("m1")
    /\ migrator["m1"].promise = [state |-> "rejected", reason |-> "UnknownError"]
    /\ migrator["m1"].version = 0 /\ migrator["m1"].to_create = {}
    /\ DesiredNames("m1") = {"a", "b"}
    /\ ExistingNames = {"a"}
    /\ dbVersion = 2
    /\ openQueue = <<>>

\* ---- claims about the transactions of the operations
Readers == {"get", "getJson", "getAll", "getAllKeys", "getKey", "count"}
Writers == {"put", "add", "delete", "clear"}

\* C21: a method call adds exactly one request, in a transaction of its own
\* on the adapter's object store, read-only for get, getJson, getAll,
\* getAllKeys, getKey and count and read-write for put, add, delete and
\* clear, and changes nothing else; the step in which the engine answers a
\* request of a read-only transaction leaves the entries unchanged; and
\* the entries change only when the engine fires success on a request of a
\* read-write transaction, and then only those of its object store.
C21_Transactions ==
    [][/\ requests' # requests =>
            \/ /\ Len(requests') = Len(requests) + 1
               /\ SubSeq(requests', 1, Len(requests)) = requests
               /\ entries' = entries
               /\ LET r == requests'[Len(requests')]
                  IN /\ r.outcome = "pending"
                     /\ r.objectstorename = adapter[r.adapter].objectstorename
                     /\ r.op \in Readers => r.mode = "readonly"
                     /\ r.op \in Writers => r.mode = "readwrite"
                     /\ r.op \in Readers \cup Writers
            \/ /\ Len(requests') = Len(requests)
               /\ \E i \in DOMAIN requests :
                    /\ requests[i].outcome = "pending" /\ requests'[i].outcome # "pending"
                    /\ \A j \in DOMAIN requests \ {i} : requests'[j] = requests[j]
                    /\ requests[i].mode = "readonly" => entries' = entries
                    /\ requests'[i].outcome = "error" => entries' = entries
                    /\ \A n \in StoreNames \ {requests[i].objectstorename} :
                            entries'[n] = entries[n]
       /\ entries' # entries =>
            \E i \in DOMAIN requests :
                /\ requests[i].op \in Writers
                /\ requests[i].outcome = "pending" /\ requests'[i].outcome = "success"]_vars

C21_Witness ==
    /\ Len(requests) = 3
    /\ requests[1].op = "put" /\ requests[1].arguments = <<Str("test"), Num(137)>>
    /\ requests[1].mode = "readwrite" /\ requests[1].outcome = "success"
    /\ requests[2].op = "count" /\ requests[2].mode = "readonly"
    /\ requests[2].promise = [state |-> "fulfilled", value |-> Num(1)]
    /\ requests[3].op = "clear" /\ requests[3].mode = "readwrite"
    /\ requests[3].outcome = "pending"
    /\ entries["a"][Num(137)] = Str("test")

\* ---- claims about what a migrator call leaves alone
\* A step of the migrator call m: the call itself, or a step of the engine
\* or of a handler on one of its two open requests.
StepOfCall(m) ==
    \/ migrator'[m] # migrator[m]
    \/ OnBehalfOf(m) /\ (openStage' # openStage \/ Ends)

\* C22: every step of a migrator call leaves every object store that
\* exists as it is, with the parameters it was created with, leaves every
\* entry as it is, and adds only object stores named in the call's
\* objectStores argument, whether the call goes on to fulfil or to reject.
C22_Preserves ==
    [][\A m \in Migrators :
        StepOfCall(m) =>
            /\ \A n \in StoreNames : objectStores[n] # NoStore => objectStores'[n] = objectStores[n]
            /\ entries' = entries
            /\ Added \subseteq {d.name : d \in migrator'[m].objectStores}
            /\ dbVersion' >= dbVersion]_vars

C22_Witness ==
    /\ Fulfilled("m1")
    /\ DesiredNames("m1") = {"a", "b"} /\ Pending("m1") = {"b"}
    /\ objectStores["a"] = StoreParameters({})
    /\ objectStores["b"] = StoreParameters({"autoIncrement"})
    /\ entries["a"][Num(137)] = Str("test")
    /\ ExistingNames = {"a", "b"}

\* ---- claims about the two versions of the adapter
\* C23 (as claimed): the two versions of the adapter are equivalent: an
\* adapter object has the same methods in both, close among them, and a
\* method called with the same arguments on the same entries, on whose
\* request the engine fires the same event, settles its promise in the
\* same state with the same value in both.
C23_Equivalent ==
    /\ \A a \in Adapters :
            adapter[a].promise.state = "fulfilled" => Exposes("ts") = Exposes("js")
    /\ \A i, j \in DOMAIN requests :
            (/\ requests[i].version = "ts" /\ requests[j].version = "js"
             /\ requests[i].op = requests[j].op
             /\ requests[i].arguments = requests[j].arguments
             /\ requests[i].outcome # "pending"
             /\ requests[i].outcome = requests[j].outcome
             /\ EntriesBefore(i) = EntriesBefore(j)) =>
                requests[i].promise = requests[j].promise

====
